---- MODULE Spec2Model ----
(***************************************************************************)
(* Verification model of MulticopterSim:                                   *)
(*   - FThreadedWorker (Source/MainModule/ThreadedWorker.hpp)              *)
(*   - the session, the serial-over-socket bridge, the frame loop, the     *)
(*     board callbacks and joystickInit of AVehiclePawn                    *)
(*     (Source/MulticopterSim/VehiclePawn.cpp)                             *)
(*   - Joystick (Source/MulticopterSim/joystick/JoystickLinux.cpp)         *)
(*                                                                         *)
(* Time is counted in ticks of 10 ms.  A Sleep(d) returns no earlier than  *)
(* d after it was entered and may return arbitrarily later (the scheduler  *)
(* gives no upper bound), so a sleeper is modelled by a countdown that has *)
(* to reach 0 before the thread may continue.                              *)
(***************************************************************************)
EXTENDS Integers, Naturals, Sequences, FiniteSets, TLC

\* ------------------------------------------------------------------ bounds
MaxCount == 3        \* performTask invocations explored per behaviour
MaxStops == 2        \* calls of Stop() explored per behaviour
MaxThreads == 2      \* universe of thread identities
MaxInbox == 3        \* bytes a client may have in flight
BUFLEN == 2           \* capacity of _serverBuffer explored (ThreadedSocketServer::BUFLEN)
MaxTimeCalls == 8    \* calls of getTime() explored per session

\* sample inputs
Bytes == {65, 255}
ZeroVector == <<0, 0, 0>>
EulerSamples == {ZeroVector, <<1, 0, 2>>}
VarioSamples == {0, 1}

\* a motor vector _motorvals[0..3]
Motors(m0, m1, m2, m3) == [k \in 0..3 |-> <<m0, m1, m2, m3>>[k + 1]]

\* the writeMotor(index, value) calls of one hackflight.update()
Writes(m) == [k \in 1..4 |-> <<k - 1, m[k - 1]>>]

\* one frame: the host's frame interval, Euler angles and vertical speed, the
\* joystick state that joystickPoll reads and the motor writes of the firmware
FrameA == [dt |-> 1, euler |-> ZeroVector, vario |-> 0, joy |-> 1,
           writes |-> Writes(Motors(1, 0, 1, 0))]

FrameB == [dt |-> 2, euler |-> <<1, 0, 2>>, vario |-> 1, joy |-> 2,
           writes |-> Writes(Motors(0, 1, 0, 1))]

FrameC == [dt |-> 0, euler |-> <<1, 0, 2>>, vario |-> 1, joy |-> 1,
           writes |-> <<>>]

FrameD == [dt |-> 1, euler |-> ZeroVector, vario |-> 0, joy |-> 2,
           writes |-> Writes(Motors(0, 0, 1, 0))]

TickInputs == {FrameA, FrameB, FrameC, FrameD}

\* the frames explored together with the serial bridge
BridgeTickInputs == {FrameA, FrameB}

\* --------------------------------------------------------- worker constants
SettleTicks == 50    \* FPlatformProcess::Sleep(0.5)   = 50 ticks of 10 ms
GraceTicks == 3      \* FPlatformProcess::Sleep(0.03)  =  3 ticks of 10 ms
YieldTicks == 0      \* FPlatformProcess::Sleep(.0001) <  1 tick: lower bound 0

VARIABLES
    \* FThreadedWorker
    mpc,        \* position of the owning (main) thread
    wpc,        \* position of each worker thread in Init()/Run()
    running,    \* _running
    count,      \* _count
    reg,        \* per thread: the value of _count loaded by _count++
    wLeft,      \* per thread: ticks its current Sleep still has to last
    mLeft,      \* ticks the Sleep inside Stop() still has to last
    viaHelper,  \* the Stop() in progress was called by stopThreadedWorker
    \* observation of the worker (history variables)
    completed,  \* performTask invocations that have returned
    stops,      \* calls of Stop() so far
    stopRet,    \* some call of Stop() has returned
    earlyStop,  \* the first Stop() was issued before Run() left its settle delay
    sinceRet,   \* ticks since Stop() first returned, saturating at GraceTicks
    reads,      \* calls of getCount(), saturating at 2
    obs,        \* value returned by the latest getCount()
    prevObs     \* value returned by the getCount() before that

workerVars == <<mpc, wpc, running, count, reg, wLeft, mLeft, viaHelper,
                completed, stops, stopRet, earlyStop, sinceRet, reads, obs, prevObs>>

VARIABLES
    \* AVehiclePawn: session and sensor state
    played,               \* BeginPlay() has run
    eulerPrev,            \* _eulerPrev
    gyro,                 \* _gyro, as [diff, dt]: the Euler difference and its divisor
    varioPrev,            \* _varioPrev
    accelZ,               \* _accelZ, as [diff, dt]
    elapsedTime,          \* _elapsedTime (float), in units of 2^-23 s
    \* AVehiclePawn: serial bridge
    serverRunning,        \* _serverRunning
    serverAvailableBytes, \* _serverAvailableBytes
    serverByteIndex,      \* _serverByteIndex
    serverBuffer,         \* _serverBuffer (char[BUFLEN]), indexed from 0
    \* ThreadedSocketServer and its peer
    serverState,          \* NOT_STARTED, LISTENING or CONNECTED
    inbox,                \* bytes the client has sent that were not received yet
    \* observation of the bridge (history variables)
    lastOp,               \* the handler that ran last
    arg,                  \* the argument of the last serialWriteByte
    ret,                  \* the value the last serialAvailableBytes/serialReadByte returned
    io,                   \* the socket operations the last handler performed
    errors,               \* calls of serverError()
    hadRecv,              \* receiveBuffer has been called in this session
    lastRecv,             \* the bytes the last receiveBuffer call delivered
    readsSince,           \* serialReadByte calls since the last receiveBuffer call
    callsSince,           \* serialAvailableBytes calls since (and with) it, saturating at 2
    credit                \* bytes the caller may still read: last reported count minus reads

sensorVars == <<eulerPrev, gyro, varioPrev, accelZ, elapsedTime>>

bridgeVars == <<serverRunning, serverAvailableBytes, serverByteIndex, serverBuffer,
                serverState, inbox>>

historyVars == <<lastOp, arg, ret, io, errors, hadRecv, lastRecv, readsSince,
                 callsSince, credit>>

VARIABLES
    \* AVehiclePawn: the session
    started,              \* server.start() returned true in BeginPlay (history)
    ended,                \* EndPlay() has run
    \* AVehiclePawn: flight state
    receiver,             \* the joystick state the receiver was last updated with
    motorvals,            \* _motorvals[0..3]
    \* observation of Tick and of the board callbacks (history variables)
    updateSaw,            \* the receiver state when hackflight.update() last ran
    motorWrites,          \* the writeMotor calls of the last hackflight.update()
    forces,               \* forces[0..2] of the last Tick
    rotation,             \* the argument of the last AddActorLocalRotation
    thrust,               \* motorSum of the last Tick
    rates,                \* gyroRates[0..2] filled by the last getGyrometer
    eulers,               \* the Euler angles of the preceding and of the last Tick
    dtNow,                \* DeltaSeconds of the last Tick
    ticked,               \* Tick has run since BeginPlay
    timeCalls             \* calls of getTime() since BeginPlay

sessionVars == <<started, ended>>

flightVars == <<receiver, motorvals, updateSaw, motorWrites, forces, rotation, thrust, rates,
                eulers, dtNow, ticked, timeCalls>>

pawnVars == <<played, sensorVars, bridgeVars, historyVars, sessionVars, flightVars>>

VARIABLES
    \* AVehiclePawn::joystickInit and what it finds
    devices,              \* the joystick ids 0..15 that answer joyGetDevCaps
    devVendor,            \* joycaps.wMid of the first of them
    devProduct,           \* joycaps.wPid of the first of them
    stackAxis,            \* what the memory of the local axismap[5] holds
    stackButton,          \* what the memory of the local buttonmap[5] holds
    jipc,                 \* "new" before joystickInit has run, then "done"
    joyid,                \* _joyid
    handed                \* the arguments of new SimReceiver(...)

initVars == <<devices, devVendor, devProduct, stackAxis, stackButton, jipc, joyid,
              handed>>

VARIABLES
    \* Joystick (JoystickLinux.cpp)
    jsName,               \* the product name the device reports
    jsOpen,               \* _joystickId > 0
    jsProduct,            \* _productId
    jsIsRc,               \* _isRcTransmitter
    jsAxes,               \* static float _axes[6] of poll, in units of 1/Scale
    jsSpill,              \* the float behind _axes[5]
    outAxes,              \* the caller's axes[6]
    \* observation of poll (history variables)
    jsRet,                \* the value the last poll returned
    outWritten,           \* some poll has written the caller's axes[6]
    mapOutside,           \* some axis event indexed its axis map outside 0..7
    storeOutside,         \* some axis event stored outside _axes[0..5]
    btn3,                 \* button 3 of the InterLink is asserted
    btn4,                 \* button 4 of the InterLink is asserted
    bothSeen,             \* buttons 3 and 4 have been asserted at the same time
    auxOnly,              \* every event read so far was a press or release of 3 or 4
    auxEvents             \* such events read so far, saturating at 1

joyVars == <<jsName, jsOpen, jsProduct, jsIsRc, jsAxes, jsSpill, outAxes, jsRet,
             outWritten, mapOutside, storeOutside, btn3, btn4, bothSeen, auxOnly,
             auxEvents>>

vars == <<workerVars, pawnVars, initVars, joyVars>>

Threads == 1..MaxThreads

\* variant: the constructor creates a second thread for the same runnable
ThreadsCreated_Twice == {1, 2}

\* FRunnableThread::Create is called once in the constructor: one thread
ThreadsCreated == {1}

\* ------------------------------------------------------------------- Init
\* The worker object before its constructor body runs: _running has a default
\* member initializer, _count has none (indeterminate).
WorkerInit ==
    /\ mpc = "new"
    /\ wpc = [t \in Threads |-> "none"]
    /\ running = FALSE
    /\ count \in 0..MaxCount
    /\ reg = [t \in Threads |-> 0]
    /\ wLeft = [t \in Threads |-> 0]
    /\ mLeft = 0
    /\ viaHelper = FALSE
    /\ completed = 0
    /\ stops = 0
    /\ stopRet = FALSE
    /\ earlyStop = FALSE
    /\ sinceRet = 0
    /\ reads = 0
    /\ obs = 0
    /\ prevObs = 0
    \* no pawn is playing
    /\ played = FALSE
    /\ eulerPrev = ZeroVector
    /\ gyro = [diff |-> ZeroVector, dt |-> 1]
    /\ varioPrev = 0
    /\ accelZ = [diff |-> 0, dt |-> 1]
    /\ elapsedTime = 0
    /\ serverRunning = FALSE
    /\ serverAvailableBytes = 0
    /\ serverByteIndex = 0
    /\ serverBuffer = [i \in 0..(BUFLEN - 1) |-> 0]
    /\ serverState = "NOT_STARTED"
    /\ inbox = <<>>
    /\ lastOp = "none"
    /\ arg = 0
    /\ ret = 0
    /\ io = <<>>
    /\ errors = 0
    /\ hadRecv = FALSE
    /\ lastRecv = <<>>
    /\ readsSince = 0
    /\ callsSince = 0
    /\ credit = 0
    /\ started = FALSE
    /\ ended = FALSE
    /\ receiver = 0
    /\ motorvals = Motors(0, 0, 0, 0)
    /\ updateSaw = 0
    /\ motorWrites = <<>>
    /\ forces = [k \in 0..2 |-> 0]
    /\ rotation = [dt |-> 0, pitch |-> 0, yaw |-> 0, roll |-> 0]
    /\ thrust = 0
    /\ rates = [k \in 0..2 |-> [num |-> 0, den |-> 1]]
    /\ eulers = <<ZeroVector, ZeroVector>>
    /\ dtNow = 0
    /\ ticked = FALSE
    /\ timeCalls = 0
    \* joystickInit is not looked at
    /\ devices = {}
    /\ devVendor = "OTHER"
    /\ devProduct = "OTHER"
    /\ stackAxis = [k \in 0..4 |-> 0]
    /\ stackButton = [k \in 0..4 |-> 0]
    /\ jipc = "done"
    /\ joyid = 16
    /\ handed = <<>>
    \* no Joystick exists
    /\ jsName = "none"
    /\ jsOpen = FALSE
    /\ jsProduct = "OTHER"
    /\ jsIsRc = FALSE
    /\ jsAxes = [k \in 0..5 |-> 0]
    /\ jsSpill = 0
    /\ outAxes = [k \in 0..5 |-> 0]
    /\ jsRet = "none"
    /\ outWritten = FALSE
    /\ mapOutside = FALSE
    /\ storeOutside = FALSE
    /\ btn3 = FALSE
    /\ btn4 = FALSE
    /\ bothSeen = FALSE
    /\ auxOnly = TRUE
    /\ auxEvents = 0

\* --------------------------------------------------- owning thread actions
\* FThreadedWorker(): _thread = FRunnableThread::Create(this, ...)
CtorCreate ==
    /\ mpc = "new"
    /\ mpc' = "ctor"
    /\ wpc' = [t \in Threads |-> IF t \in ThreadsCreated THEN "init" ELSE "none"]
    /\ UNCHANGED <<running, count, reg, wLeft, mLeft, viaHelper, completed,
                   stops, stopRet, earlyStop, sinceRet, reads, obs, prevObs, pawnVars, initVars,
                   joyVars>>

\* FThreadedWorker(): *_message = 0; _startTime = ...; _count = 0
CtorFinish ==
    /\ mpc = "ctor"
    /\ mpc' = "idle"
    /\ count' = 0
    /\ UNCHANGED <<wpc, running, reg, wLeft, mLeft, viaHelper, completed,
                   stops, stopRet, earlyStop, sinceRet, reads, obs, prevObs, pawnVars, initVars,
                   joyVars>>

\* getCount(), callable once the object is constructed
getCount ==
    /\ mpc \in {"idle", "stopping", "deleting"}
    /\ prevObs' = obs
    /\ obs' = count
    /\ reads' = IF reads < 2 THEN reads + 1 ELSE 2
    /\ (reads' # reads \/ obs' # obs \/ prevObs' # prevObs)
    /\ UNCHANGED <<mpc, wpc, running, count, reg, wLeft, mLeft, viaHelper,
                   completed, stops, stopRet, earlyStop, sinceRet, pawnVars, initVars,
                   joyVars>>

\* Stop(): _running = false; then enter Sleep(0.03).  helper = TRUE when the
\* caller is stopThreadedWorker(worker), which deletes the worker afterwards.
StopBegin(helper) ==
    /\ mpc = "idle"
    /\ stops < MaxStops
    /\ running' = FALSE
    /\ mLeft' = GraceTicks
    /\ mpc' = "stopping"
    /\ viaHelper' = helper
    /\ stops' = stops + 1
    /\ earlyStop' = IF stops = 0
                    THEN \A t \in ThreadsCreated : wpc[t] \in {"init", "settle"}
                    ELSE earlyStop
    /\ UNCHANGED <<wpc, count, reg, wLeft, completed, stopRet, sinceRet,
                   reads, obs, prevObs, pawnVars, initVars,
                   joyVars>>

\* Stop(): the Sleep is over, FRunnable::Stop() is called, Stop() returns
StopEnd ==
    /\ mpc = "stopping"
    /\ mLeft = 0
    /\ mpc' = IF viaHelper THEN "deleting" ELSE "idle"
    /\ stopRet' = TRUE
    /\ UNCHANGED <<wpc, running, count, reg, wLeft, mLeft, viaHelper, completed,
                   stops, earlyStop, sinceRet, reads, obs, prevObs, pawnVars, initVars,
                   joyVars>>

\* stopThreadedWorker(): delete worker.  The object's lifetime ends here; the
\* teardown of the thread behind it is the engine's.
DeleteWorker ==
    /\ mpc = "deleting"
    /\ mpc' = "deleted"
    /\ UNCHANGED <<wpc, running, count, reg, wLeft, mLeft, viaHelper, completed,
                   stops, stopRet, earlyStop, sinceRet, reads, obs, prevObs, pawnVars, initVars,
                   joyVars>>

Alive == mpc # "deleted"

\* --------------------------------------------------- worker thread actions
\* Init(): _running = false; then Run() enters Sleep(0.5)
WorkerInitCall(t) ==
    /\ Alive
    /\ wpc[t] = "init"
    /\ running' = FALSE
    /\ wpc' = [wpc EXCEPT ![t] = "settle"]
    /\ wLeft' = [wLeft EXCEPT ![t] = SettleTicks]
    /\ UNCHANGED <<mpc, count, reg, mLeft, viaHelper, completed, stops, stopRet,
                   earlyStop, sinceRet, reads, obs, prevObs, pawnVars, initVars,
                   joyVars>>

\* Run(): the settle delay is over; _running = true
RunStart(t) ==
    /\ Alive
    /\ wpc[t] = "settle"
    /\ wLeft[t] = 0
    /\ running' = TRUE
    /\ wpc' = [wpc EXCEPT ![t] = "check"]
    /\ UNCHANGED <<mpc, count, reg, wLeft, mLeft, viaHelper, completed, stops,
                   stopRet, earlyStop, sinceRet, reads, obs, prevObs, pawnVars, initVars,
                   joyVars>>

\* Run(): while (_running) { ... performTask(currentTime) is entered
TaskBegin(t) ==
    /\ Alive
    /\ wpc[t] = "check"
    /\ running
    /\ count < MaxCount
    /\ wpc' = [wpc EXCEPT ![t] = "task"]
    /\ UNCHANGED <<mpc, running, count, reg, wLeft, mLeft, viaHelper, completed,
                   stops, stopRet, earlyStop, sinceRet, reads, obs, prevObs, pawnVars, initVars,
                   joyVars>>

\* Run(): while (_running) is false; return 0
RunExit(t) ==
    /\ Alive
    /\ wpc[t] = "check"
    /\ ~running
    /\ wpc' = [wpc EXCEPT ![t] = "done"]
    /\ UNCHANGED <<mpc, running, count, reg, wLeft, mLeft, viaHelper, completed,
                   stops, stopRet, earlyStop, sinceRet, reads, obs, prevObs, pawnVars, initVars,
                   joyVars>>

\* performTask returns (after any amount of time)
TaskEnd(t) ==
    /\ Alive
    /\ wpc[t] = "task"
    /\ wpc' = [wpc EXCEPT ![t] = "load"]
    /\ completed' = completed + 1
    /\ UNCHANGED <<mpc, running, count, reg, wLeft, mLeft, viaHelper, stops,
                   stopRet, earlyStop, sinceRet, reads, obs, prevObs, pawnVars, initVars,
                   joyVars>>

\* _count++ : load
CountLoad(t) ==
    /\ Alive
    /\ wpc[t] = "load"
    /\ reg' = [reg EXCEPT ![t] = count]
    /\ wpc' = [wpc EXCEPT ![t] = "store"]
    /\ UNCHANGED <<mpc, running, count, wLeft, mLeft, viaHelper, completed, stops,
                   stopRet, earlyStop, sinceRet, reads, obs, prevObs, pawnVars, initVars,
                   joyVars>>

\* _count++ : store; then enter Sleep(.0001).  _count is a uint32_t; TaskBegin
\* stops at MaxCount, far below 2^32, so the increment never wraps here.
CountStore(t) ==
    /\ Alive
    /\ wpc[t] = "store"
    /\ count' = reg[t] + 1
    /\ reg' = [reg EXCEPT ![t] = 0]
    /\ wpc' = [wpc EXCEPT ![t] = "yield"]
    /\ wLeft' = [wLeft EXCEPT ![t] = YieldTicks]
    /\ UNCHANGED <<mpc, running, mLeft, viaHelper, completed, stops, stopRet,
                   earlyStop, sinceRet, reads, obs, prevObs, pawnVars, initVars,
                   joyVars>>

\* the Sleep(.0001) is over: back to the loop test
YieldEnd(t) ==
    /\ Alive
    /\ wpc[t] = "yield"
    /\ wLeft[t] = 0
    /\ wpc' = [wpc EXCEPT ![t] = "check"]
    /\ UNCHANGED <<mpc, running, count, reg, wLeft, mLeft, viaHelper, completed,
                   stops, stopRet, earlyStop, sinceRet, reads, obs, prevObs, pawnVars, initVars,
                   joyVars>>

\* ------------------------------------------------------------ time passes
Dec(n) == IF n > 0 THEN n - 1 ELSE 0

TimePasses ==
    /\ \/ \E t \in Threads : wLeft[t] > 0
       \/ mLeft > 0
       \/ (stopRet /\ sinceRet < GraceTicks)
    /\ wLeft' = [t \in Threads |-> Dec(wLeft[t])]
    /\ mLeft' = Dec(mLeft)
    /\ sinceRet' = IF stopRet /\ sinceRet < GraceTicks THEN sinceRet + 1 ELSE sinceRet
    /\ UNCHANGED <<mpc, wpc, running, count, reg, viaHelper, completed, stops,
                   stopRet, earlyStop, reads, obs, prevObs, pawnVars, initVars,
                   joyVars>>

WorkerNext ==
    \/ CtorCreate
    \/ CtorFinish
    \/ getCount
    \/ \E helper \in BOOLEAN : StopBegin(helper)
    \/ StopEnd
    \/ DeleteWorker
    \/ \E t \in Threads : WorkerInitCall(t)
    \/ \E t \in Threads : RunStart(t)
    \/ \E t \in Threads : TaskBegin(t)
    \/ \E t \in Threads : RunExit(t)
    \/ \E t \in Threads : TaskEnd(t)
    \/ \E t \in Threads : CountLoad(t)
    \/ \E t \in Threads : CountStore(t)
    \/ \E t \in Threads : YieldEnd(t)
    \/ TimePasses


\* ================================================================ AVehiclePawn
\* ---------------------------------------------------------------- conversions
\* a byte as the char that receiveBuffer stores in _serverBuffer
ToChar(b) == IF b >= 128 THEN b - 256 ELSE b

\* conversion of an integer value to uint8_t (return type of the serial calls)
ToUint8(n) == n % 256

Min(a, b) == IF a < b THEN a ELSE b

\* --------------------------------------------------- ThreadedSocketServer
\* server.connected()
Connected == serverState = "CONNECTED"

\* server.receiveBuffer(buf, len): the possible results of one non-blocking
\* receive: an error, nothing, or as many pending bytes as fit
RecvResults(q, len) ==
    {-1} \cup (IF q = <<>> THEN {0} ELSE {Min(Len(q), len)})

\* the buffer after n bytes of q were stored at its start
Filled(buf, q, n) ==
    [i \in DOMAIN buf |-> IF i < n THEN ToChar(q[i + 1]) ELSE buf[i]]

Rest(q, n) == IF n <= 0 THEN q ELSE SubSeq(q, n + 1, Len(q))

Recv(n) == [op |-> "recv", n |-> n, data |-> <<>>]

Send(data) == [op |-> "send", n |-> Len(data), data |-> data]

\* ------------------------------------------------- expressions of the code
\* variant: the unread bytes are not looked at before receiving
HasUnread_Never(n) == FALSE

\* serialAvailableBytes: if (_serverAvailableBytes > 0)
HasUnread(n) == n > 0

\* variant: the result of the receive is stored as it is
Normalize_NoClamp(n) == n

\* serialAvailableBytes: if (_serverAvailableBytes < 0) _serverAvailableBytes = 0
Normalize(n) == IF n < 0 THEN 0 ELSE n

\* variant: the cursor is not advanced
NextIndex_Stay(i) == i

\* serialReadByte: _serverByteIndex++
NextIndex(i) == i + 1

\* variants: the count is not decremented; the count is decremented twice
NextCount_Keep(n) == n

NextCount_Twice(n) == n - 2

\* serialReadByte: _serverAvailableBytes--
NextCount(n) == n - 1

\* serialReadByte: _serverBuffer[_serverByteIndex]; outside the array the read
\* yields any value
ByteAt(buf, i) == IF i \in DOMAIN buf THEN {buf[i]} ELSE {ToChar(b) : b \in Bytes}

\* ---------------------------------------------------------------------- Init
\* The pawn after its constructor, which sets none of these members: they hold
\* whatever the object's memory holds.  The server object exists, not started.
PawnInit ==
    /\ played = FALSE
    /\ eulerPrev \in EulerSamples
    /\ gyro = [diff |-> ZeroVector, dt |-> 1]
    /\ varioPrev \in VarioSamples
    /\ accelZ = [diff |-> 0, dt |-> 1]
    /\ elapsedTime = 0
    /\ serverRunning \in BOOLEAN
    /\ serverAvailableBytes \in 0..1
    /\ serverByteIndex \in 0..BUFLEN
    /\ serverBuffer \in [0..(BUFLEN - 1) -> {ToChar(b) : b \in Bytes}]
    /\ serverState = "NOT_STARTED"
    /\ inbox = <<>>
    /\ lastOp = "none"
    /\ arg = 0
    /\ ret = 0
    /\ io = <<>>
    /\ errors = 0
    /\ hadRecv = FALSE
    /\ lastRecv = <<>>
    /\ readsSince = 0
    /\ callsSince = 0
    /\ credit = 0
    /\ started = FALSE
    /\ ended = FALSE
    /\ receiver = 0
    /\ motorvals = Motors(0, 0, 0, 0)
    /\ updateSaw = 0
    /\ motorWrites = <<>>
    /\ forces = [k \in 0..2 |-> 0]
    /\ rotation = [dt |-> 0, pitch |-> 0, yaw |-> 0, roll |-> 0]
    /\ thrust = 0
    /\ rates = [k \in 0..2 |-> [num |-> 0, den |-> 1]]
    /\ eulers = <<ZeroVector, ZeroVector>>
    /\ dtNow = 0
    /\ ticked = FALSE
    /\ timeCalls = 0
    \* no worker exists
    /\ mpc = "new"
    /\ wpc = [t \in Threads |-> "none"]
    /\ running = FALSE
    /\ count = 0
    /\ reg = [t \in Threads |-> 0]
    /\ wLeft = [t \in Threads |-> 0]
    /\ mLeft = 0
    /\ viaHelper = FALSE
    /\ completed = 0
    /\ stops = 0
    /\ stopRet = FALSE
    /\ earlyStop = FALSE
    /\ sinceRet = 0
    /\ reads = 0
    /\ obs = 0
    /\ prevObs = 0
    \* joystickInit is not looked at
    /\ devices = {}
    /\ devVendor = "OTHER"
    /\ devProduct = "OTHER"
    /\ stackAxis = [k \in 0..4 |-> 0]
    /\ stackButton = [k \in 0..4 |-> 0]
    /\ jipc = "done"
    /\ joyid = 16
    /\ handed = <<>>
    \* no Joystick exists
    /\ jsName = "none"
    /\ jsOpen = FALSE
    /\ jsProduct = "OTHER"
    /\ jsIsRc = FALSE
    /\ jsAxes = [k \in 0..5 |-> 0]
    /\ jsSpill = 0
    /\ outAxes = [k \in 0..5 |-> 0]
    /\ jsRet = "none"
    /\ outWritten = FALSE
    /\ mapOutside = FALSE
    /\ storeOutside = FALSE
    /\ btn3 = FALSE
    /\ btn4 = FALSE
    /\ bothSeen = FALSE
    /\ auxOnly = TRUE
    /\ auxEvents = 0

\* The same pawn with one content of the receive buffer, which the frame loop
\* and the callbacks explored with it never read.
FlightInit ==
    /\ played = FALSE
    /\ eulerPrev \in EulerSamples
    /\ gyro = [diff |-> ZeroVector, dt |-> 1]
    /\ varioPrev \in VarioSamples
    /\ accelZ = [diff |-> 0, dt |-> 1]
    /\ elapsedTime = 0
    /\ serverRunning \in BOOLEAN
    /\ serverAvailableBytes \in 0..1
    /\ serverByteIndex = 0
    /\ serverBuffer = [i \in 0..(BUFLEN - 1) |-> ToChar(65)]
    /\ serverState = "NOT_STARTED"
    /\ inbox = <<>>
    /\ lastOp = "none"
    /\ arg = 0
    /\ ret = 0
    /\ io = <<>>
    /\ errors = 0
    /\ hadRecv = FALSE
    /\ lastRecv = <<>>
    /\ readsSince = 0
    /\ callsSince = 0
    /\ credit = 0
    /\ started = FALSE
    /\ ended = FALSE
    /\ receiver = 0
    /\ motorvals = Motors(0, 0, 0, 0)
    /\ updateSaw = 0
    /\ motorWrites = <<>>
    /\ forces = [k \in 0..2 |-> 0]
    /\ rotation = [dt |-> 0, pitch |-> 0, yaw |-> 0, roll |-> 0]
    /\ thrust = 0
    /\ rates = [k \in 0..2 |-> [num |-> 0, den |-> 1]]
    /\ eulers = <<ZeroVector, ZeroVector>>
    /\ dtNow = 0
    /\ ticked = FALSE
    /\ timeCalls = 0
    \* no worker exists
    /\ mpc = "new"
    /\ wpc = [t \in Threads |-> "none"]
    /\ running = FALSE
    /\ count = 0
    /\ reg = [t \in Threads |-> 0]
    /\ wLeft = [t \in Threads |-> 0]
    /\ mLeft = 0
    /\ viaHelper = FALSE
    /\ completed = 0
    /\ stops = 0
    /\ stopRet = FALSE
    /\ earlyStop = FALSE
    /\ sinceRet = 0
    /\ reads = 0
    /\ obs = 0
    /\ prevObs = 0
    \* joystickInit is not looked at
    /\ devices = {}
    /\ devVendor = "OTHER"
    /\ devProduct = "OTHER"
    /\ stackAxis = [k \in 0..4 |-> 0]
    /\ stackButton = [k \in 0..4 |-> 0]
    /\ jipc = "done"
    /\ joyid = 16
    /\ handed = <<>>
    \* no Joystick exists
    /\ jsName = "none"
    /\ jsOpen = FALSE
    /\ jsProduct = "OTHER"
    /\ jsIsRc = FALSE
    /\ jsAxes = [k \in 0..5 |-> 0]
    /\ jsSpill = 0
    /\ outAxes = [k \in 0..5 |-> 0]
    /\ jsRet = "none"
    /\ outWritten = FALSE
    /\ mapOutside = FALSE
    /\ storeOutside = FALSE
    /\ btn3 = FALSE
    /\ btn4 = FALSE
    /\ bothSeen = FALSE
    /\ auxOnly = TRUE
    /\ auxEvents = 0

\* -------------------------------------------------------------- the session
\* ThreadedSocketServer::disconnect() and stop(), as EndPlay calls them
Disconnect(ok) == [op |-> "disconnect", n |-> IF ok THEN 1 ELSE 0, data |-> <<>>]

StopCall == [op |-> "stop", n |-> 0, data |-> <<>>]

\* the state of the server after these calls: stop() leaves it not started, a
\* successful disconnect() leaves it listening
ServerAfter(state, calls) ==
    IF \E k \in DOMAIN calls : calls[k].op = "stop" THEN "NOT_STARTED"
    ELSE IF \E k \in DOMAIN calls : calls[k] = Disconnect(TRUE) THEN "LISTENING"
    ELSE state

\* variant: _serverRunning is left set when server.start() fails
RunningAfterStart_Keep(startOk) == TRUE

\* BeginPlay: _serverRunning = true; if (!server.start()) _serverRunning = false
RunningAfterStart(startOk) == startOk

\* variant: server.stop() is called only after a successful disconnect
EndPlayCalls_StopOnSuccess(isRunning, isConnected, discOk) ==
    IF ~isRunning THEN <<>>
    ELSE IF isConnected
    THEN (IF discOk THEN <<Disconnect(discOk), StopCall>> ELSE <<Disconnect(discOk)>>)
    ELSE <<StopCall>>

\* EndPlay: the calls made on the server
EndPlayCalls(isRunning, isConnected, discOk) ==
    IF ~isRunning THEN <<>>
    ELSE (IF isConnected THEN <<Disconnect(discOk)>> ELSE <<>>) \o <<StopCall>>

\* ------------------------------------------------------------------ flight
Abs(v) == IF v < 0 THEN -v ELSE v

\* variant: the second and third motor index are exchanged
motorsToAngularForce_Swapped(m, a, b, c, d) ==
    LET v == (m[a] + m[c]) - (m[b] + m[d])
    IN  (IF v < 0 THEN -1 ELSE 1) * Abs(v)

\* motorsToAngularForce(a, b, c, d) on the motor values m
motorsToAngularForce(m, a, b, c, d) ==
    LET v == (m[a] + m[b]) - (m[c] + m[d])
    IN  (IF v < 0 THEN -1 ELSE 1) * Abs(v)

\* Tick: forces[0..2]
AngularForces(m) ==
    [k \in 0..2 |-> CASE k = 0 -> motorsToAngularForce(m, 2, 3, 0, 1)
                      [] k = 1 -> motorsToAngularForce(m, 1, 3, 0, 2)
                      [] k = 2 -> motorsToAngularForce(m, 1, 2, 0, 3)]

\* Tick: motorSum
MotorSum(m) == m[0] + m[1] + m[2] + m[3]

\* writeMotor(index, value)
writeMotor(m, index, value) == [m EXCEPT ![index] = value]

\* the motor values after the writeMotor calls ws of one hackflight.update()
RECURSIVE Written(_, _)
Written(m, ws) ==
    IF ws = <<>> THEN m
    ELSE Written(writeMotor(m, ws[1][1], ws[1][2]), Tail(ws))

\* variant: the forces are computed before the firmware has run
ForceInput_Stale(before, after) == before

\* Tick: the forces are computed after hackflight.update() from _motorvals
ForceInput(before, after) == after

\* variant: the firmware runs before the joystick was polled
UpdateInput_Stale(before, after) == before

\* Tick: hackflight.update() runs after joystickPoll() and sees its result
UpdateInput(before, after) == after

\* a quotient of two floats, kept as its numerator and divisor
Quot(num, den) == [num |-> num, den |-> den]

\* ------------------------------------------------------------ elapsed time
\* 1.0 as a float, in units of 2^-23 s (the spacing of the floats in [1, 2))
OneSecond == 8388608

\* _elapsedTime += .01 below 2.0: the sum, in hundredths of a unit (.01 s is
\* 83886.08 units), then rounded to the nearest float
AddCentisecond_Twice(t) == ((100 * t + 2 * 8388608) + 50) \div 100

AddCentisecond(t) == ((100 * t + 8388608) + 50) \div 100

\* ------------------------------------------------------------------- actions
\* BeginPlay(): once per pawn, before the first Tick
BeginPlay(startOk) ==
    /\ ~played
    /\ played' = TRUE
    /\ eulerPrev' = ZeroVector
    /\ varioPrev' = 0
    /\ accelZ' = [diff |-> 0, dt |-> 1]
    /\ elapsedTime' = OneSecond
    /\ serverRunning' = RunningAfterStart(startOk)
    /\ serverState' = IF startOk THEN "LISTENING" ELSE "NOT_STARTED"
    /\ errors' = IF startOk THEN errors ELSE errors + 1
    /\ serverAvailableBytes' = 0
    /\ started' = startOk
    /\ eulers' = <<ZeroVector, ZeroVector>>
    /\ ticked' = FALSE
    /\ timeCalls' = 0
    /\ lastOp' = "begin"
    /\ io' = <<>>
    /\ UNCHANGED <<gyro, serverByteIndex, serverBuffer, inbox, arg, ret, hadRecv,
                   lastRecv, readsSince, callsSince, credit, ended, receiver,
                   motorvals, updateSaw, motorWrites, forces, rotation, thrust,
                   rates, dtNow, workerVars, initVars,
                   joyVars>>

\* EndPlay(): discOk is the result of server.disconnect() where it is called
EndPlay(discOk) ==
    /\ played /\ ~ended
    /\ discOk \/ (serverRunning /\ Connected)
    /\ ended' = TRUE
    /\ io' = EndPlayCalls(serverRunning, Connected, discOk)
    /\ errors' = IF Disconnect(FALSE) \in {io'[k] : k \in DOMAIN io'}
                 THEN errors + 1 ELSE errors
    /\ serverState' = ServerAfter(serverState, io')
    /\ inbox' = IF serverState' = "CONNECTED" THEN inbox ELSE <<>>
    /\ lastOp' = "end"
    /\ UNCHANGED <<played, sensorVars, serverRunning, serverAvailableBytes,
                   serverByteIndex, serverBuffer, arg, ret, hadRecv, lastRecv,
                   readsSince, callsSince, credit, started, flightVars, workerVars, initVars,
                   joyVars>>

\* Tick(DeltaSeconds): one frame.  in.euler and in.vario are the host's ground
\* truth of this frame after the rotation was applied.
Tick(in) ==
    /\ played /\ ~ended
    \* joystickPoll()
    /\ receiver' = in.joy
    \* hackflight.update()
    /\ updateSaw' = UpdateInput(receiver, receiver')
    /\ motorWrites' = in.writes
    /\ motorvals' = Written(motorvals, in.writes)
    \* forces, rotation, motor sum
    /\ forces' = AngularForces(ForceInput(motorvals, motorvals'))
    /\ rotation' = [dt |-> in.dt, pitch |-> forces'[1], yaw |-> forces'[2],
                    roll |-> forces'[0]]
    /\ thrust' = MotorSum(motorvals')
    \* sensor emulation
    /\ gyro' = [diff |-> [k \in 1..3 |-> in.euler[k] - eulerPrev[k]], dt |-> in.dt]
    /\ eulerPrev' = in.euler
    /\ accelZ' = [diff |-> in.vario - varioPrev, dt |-> in.dt]
    /\ varioPrev' = in.vario
    /\ eulers' = <<eulers[2], in.euler>>
    /\ dtNow' = in.dt
    /\ ticked' = TRUE
    /\ lastOp' = "tick"
    /\ io' = <<>>
    /\ UNCHANGED <<played, elapsedTime, bridgeVars, arg, ret, errors, hadRecv,
                   lastRecv, readsSince, callsSince, credit, sessionVars, rates,
                   timeCalls, workerVars, initVars,
                   joyVars>>

\* getGyrometer(gyroRates)
getGyrometer ==
    /\ played /\ ~ended
    /\ rates' = [k \in 0..2 |-> CASE k = 0 -> Quot(gyro.diff[1], gyro.dt)
                                  [] k = 1 -> Quot(gyro.diff[2], gyro.dt)
                                  [] k = 2 -> Quot(0, 1)]
    /\ lastOp' = "gyro"
    /\ io' = <<>>
    /\ UNCHANGED <<played, sensorVars, bridgeVars, arg, ret, errors, hadRecv,
                   lastRecv, readsSince, callsSince, credit, sessionVars, receiver,
                   motorvals, updateSaw, motorWrites, forces, rotation, thrust,
                   eulers, dtNow, ticked, timeCalls, workerVars, initVars,
                   joyVars>>

\* getTime()
getTime ==
    /\ played /\ ~ended
    /\ timeCalls < MaxTimeCalls
    /\ elapsedTime' = AddCentisecond(elapsedTime)
    /\ ret' = elapsedTime'
    /\ timeCalls' = timeCalls + 1
    /\ lastOp' = "time"
    /\ io' = <<>>
    /\ UNCHANGED <<played, eulerPrev, gyro, varioPrev, accelZ, bridgeVars, arg,
                   errors, hadRecv, lastRecv, readsSince, callsSince, credit,
                   sessionVars, receiver, motorvals, updateSaw, motorWrites,
                   forces, rotation, thrust, rates, eulers, dtNow, ticked,
                   workerVars, initVars,
                   joyVars>>

\* serialAvailableBytes(): n is the result of receiveBuffer where it is called
serialAvailableBytes(n) ==
    /\ played /\ ~ended
    /\ lastOp' = "avail"
    /\ IF HasUnread(serverAvailableBytes)
       THEN /\ n = 0
            /\ ret' = ToUint8(serverAvailableBytes)
            /\ io' = <<>>
            /\ callsSince' = Min(callsSince + 1, 2)
            /\ UNCHANGED <<serverAvailableBytes, serverByteIndex, serverBuffer,
                           inbox, hadRecv, lastRecv, readsSince>>
       ELSE IF Connected
       THEN /\ n \in RecvResults(inbox, BUFLEN)
            /\ serverBuffer' = Filled(serverBuffer, inbox, n)
            /\ inbox' = Rest(inbox, n)
            /\ serverAvailableBytes' = Normalize(n)
            /\ serverByteIndex' = 0
            /\ ret' = ToUint8(serverAvailableBytes')
            /\ io' = <<Recv(n)>>
            /\ hadRecv' = TRUE
            /\ lastRecv' = IF n > 0 THEN SubSeq(inbox, 1, n) ELSE <<>>
            /\ readsSince' = 0
            /\ callsSince' = 1
       ELSE /\ n = 0
            /\ ret' = 0
            /\ io' = <<>>
            /\ callsSince' = Min(callsSince + 1, 2)
            /\ UNCHANGED <<serverAvailableBytes, serverByteIndex, serverBuffer,
                           inbox, hadRecv, lastRecv, readsSince>>
    /\ credit' = ret'
    /\ UNCHANGED <<played, sensorVars, serverRunning, serverState, arg, errors,
                   sessionVars, flightVars,
                   workerVars, initVars,
                   joyVars>>

\* serialReadByte(): the caller reads only bytes that were reported available
serialReadByte ==
    /\ played /\ ~ended
    /\ credit > 0
    /\ \E c \in ByteAt(serverBuffer, serverByteIndex) : ret' = ToUint8(c)
    /\ serverByteIndex' = NextIndex(serverByteIndex)
    /\ serverAvailableBytes' = NextCount(serverAvailableBytes)
    /\ lastOp' = "read"
    /\ io' = <<>>
    /\ readsSince' = readsSince + 1
    /\ credit' = credit - 1
    /\ UNCHANGED <<played, sensorVars, serverRunning, serverBuffer, serverState,
                   inbox, arg, errors, hadRecv, lastRecv, callsSince, sessionVars, flightVars,
                   workerVars, initVars,
                   joyVars>>

\* variant: the byte is sent without asking whether a client is connected
serialWriteByte_Unchecked(c) ==
    /\ played /\ ~ended
    /\ lastOp' = "write"
    /\ arg' = c
    /\ io' = <<Send(<<c>>)>>
    /\ UNCHANGED <<played, sensorVars, bridgeVars, ret, errors, hadRecv, lastRecv,
                   readsSince, callsSince, credit, sessionVars, flightVars,
                   workerVars, initVars,
                   joyVars>>

\* serialWriteByte(c)
serialWriteByte(c) ==
    /\ played /\ ~ended
    /\ lastOp' = "write"
    /\ arg' = c
    /\ io' = IF Connected THEN <<Send(<<c>>)>> ELSE <<>>
    /\ UNCHANGED <<played, sensorVars, bridgeVars, ret, errors, hadRecv, lastRecv,
                   readsSince, callsSince, credit, sessionVars, flightVars,
                   workerVars, initVars,
                   joyVars>>

\* a client connects to the listening server
ClientConnect ==
    /\ serverState = "LISTENING"
    /\ serverState' = "CONNECTED"
    /\ lastOp' = "connect"
    /\ io' = <<>>
    /\ UNCHANGED <<played, sensorVars, serverRunning, serverAvailableBytes,
                   serverByteIndex, serverBuffer, inbox, arg, ret, errors, hadRecv,
                   lastRecv, readsSince, callsSince, credit, sessionVars, flightVars,
                   workerVars, initVars,
                   joyVars>>

\* the client drops the connection; what it sent and was not received is lost
ClientDisconnect ==
    /\ serverState = "CONNECTED"
    /\ serverState' = "LISTENING"
    /\ inbox' = <<>>
    /\ lastOp' = "disconnect"
    /\ io' = <<>>
    /\ UNCHANGED <<played, sensorVars, serverRunning, serverAvailableBytes,
                   serverByteIndex, serverBuffer, arg, ret, errors, hadRecv,
                   lastRecv, readsSince, callsSince, credit, sessionVars, flightVars,
                   workerVars, initVars,
                   joyVars>>

\* the connected client sends one byte
ClientSend(b) ==
    /\ serverState = "CONNECTED"
    /\ Len(inbox) < MaxInbox
    /\ inbox' = Append(inbox, b)
    /\ lastOp' = "send"
    /\ io' = <<>>
    /\ UNCHANGED <<played, sensorVars, serverRunning, serverAvailableBytes,
                   serverByteIndex, serverBuffer, serverState, arg, ret, errors,
                   hadRecv, lastRecv, readsSince, callsSince, credit, sessionVars, flightVars,
                   workerVars, initVars,
                   joyVars>>

PawnNext ==
    \/ \E startOk \in BOOLEAN : BeginPlay(startOk)
    \/ \E in \in BridgeTickInputs : Tick(in)
    \/ \E n \in -1..BUFLEN : serialAvailableBytes(n)
    \/ serialReadByte
    \/ \E c \in Bytes : serialWriteByte(c)
    \/ ClientConnect
    \/ ClientDisconnect
    \/ \E b \in Bytes : ClientSend(b)
    \/ \E discOk \in BOOLEAN : EndPlay(discOk)

\* the frame loop and the board callbacks, with a client that only connects
FlightNext ==
    \/ \E startOk \in BOOLEAN : BeginPlay(startOk)
    \/ \E in \in TickInputs : Tick(in)
    \/ getGyrometer
    \/ getTime
    \/ \E n \in -1..0 : serialAvailableBytes(n)
    \/ \E c \in Bytes : serialWriteByte(c)
    \/ ClientConnect

\* ================================================ AVehiclePawn::joystickInit
\* sample device populations, identities and stack contents
DeviceSets == {{}, {0}, {3, 7}, {15}}
Vendors == {"STM", "OTHER"}
Products == {"TARANIS", "SPEKTRUM", "PS3_CLONE", "PS4", "XBOX360_CLONE",
             "EXTREMEPRO3D", "F310", "OTHER"}
Garbage == {0, 204}

\* an array entry: its value and whether the code has assigned it
Unset(v) == [val |-> v, set |-> FALSE]

\* arr[0] = vals[1]; arr[1] = vals[2]; ...
Assigned(arr, vals) ==
    [k \in DOMAIN arr |-> IF k < Len(vals) THEN [val |-> vals[k + 1], set |-> TRUE]
                          ELSE arr[k]]

\* for (_joyid=0; _joyid<16; _joyid++) if (joyGetDevCaps(...) == JOYERR_NOERROR) break
FirstDevice(devs) ==
    IF devs = {} THEN 16 ELSE CHOOSE d \in devs : \A e \in devs : d <= e

\* the vendor/product pairs joystickInit has a profile for
KnownPair(vendor, product) ==
    \/ vendor = "STM" /\ product \in {"TARANIS", "SPEKTRUM"}
    \/ vendor # "STM" /\ product \in {"PS3_CLONE", "PS4", "XBOX360_CLONE",
                                      "EXTREMEPRO3D", "F310"}

\* the arguments of new SimReceiver(axismap, buttonmap, reversedVerticals,
\* springyThrottle, useButtonForAux) at the end of joystickInit
Profile(id, vendor, product, axismap, buttonmap) ==
    LET none == [axismap |-> axismap, buttonmap |-> buttonmap,
                 reversedVerticals |-> FALSE, springyThrottle |-> FALSE,
                 useButtonForAux |-> FALSE]
        pad(am, bm, springy) ==
            [axismap |-> Assigned(axismap, am), buttonmap |-> Assigned(buttonmap, bm),
             reversedVerticals |-> TRUE, springyThrottle |-> springy,
             useButtonForAux |-> TRUE]
    IN  IF id >= 16 THEN none
        ELSE IF vendor = "STM"
        THEN IF product = "TARANIS"
             THEN [none EXCEPT !.axismap = Assigned(axismap, <<0, 1, 2, 5, 3>>)]
             ELSE [none EXCEPT !.axismap = Assigned(axismap, <<1, 2, 5, 0, 4>>)]
        ELSE CASE product \in {"PS3_CLONE", "PS4"} -> pad(<<1, 2, 3, 0>>, <<1, 2, 4>>, TRUE)
               [] product = "XBOX360_CLONE" -> pad(<<1, 4, 3, 0>>, <<8, 2, 1>>, TRUE)
               [] product = "EXTREMEPRO3D" -> pad(<<2, 0, 1, 3>>, <<1, 2, 4>>, FALSE)
               [] product = "F310" -> pad(<<1, 4, 3, 0>>, <<8, 2, 1>>, TRUE)
               [] OTHER -> [none EXCEPT !.reversedVerticals = TRUE]

\* The pawn's constructor before it calls joystickInit: the devices present
\* and the contents of the stack where the two local arrays will live.
JoyInitInit ==
    /\ devices \in DeviceSets
    /\ devVendor \in Vendors
    /\ devProduct \in Products
    /\ stackAxis \in {[k \in 0..4 |-> Unset(g)] : g \in Garbage}
    /\ stackButton \in {[k \in 0..4 |-> Unset(g)] : g \in Garbage}
    /\ jipc = "new"
    /\ joyid = 0
    /\ handed = <<>>
    \* no Joystick exists
    /\ jsName = "none"
    /\ jsOpen = FALSE
    /\ jsProduct = "OTHER"
    /\ jsIsRc = FALSE
    /\ jsAxes = [k \in 0..5 |-> 0]
    /\ jsSpill = 0
    /\ outAxes = [k \in 0..5 |-> 0]
    /\ jsRet = "none"
    /\ outWritten = FALSE
    /\ mapOutside = FALSE
    /\ storeOutside = FALSE
    /\ btn3 = FALSE
    /\ btn4 = FALSE
    /\ bothSeen = FALSE
    /\ auxOnly = TRUE
    /\ auxEvents = 0
    \* no worker exists
    /\ mpc = "new"
    /\ wpc = [t \in Threads |-> "none"]
    /\ running = FALSE
    /\ count = 0
    /\ reg = [t \in Threads |-> 0]
    /\ wLeft = [t \in Threads |-> 0]
    /\ mLeft = 0
    /\ viaHelper = FALSE
    /\ completed = 0
    /\ stops = 0
    /\ stopRet = FALSE
    /\ earlyStop = FALSE
    /\ sinceRet = 0
    /\ reads = 0
    /\ obs = 0
    /\ prevObs = 0
    \* no pawn is playing
    /\ played = FALSE
    /\ eulerPrev = ZeroVector
    /\ gyro = [diff |-> ZeroVector, dt |-> 1]
    /\ varioPrev = 0
    /\ accelZ = [diff |-> 0, dt |-> 1]
    /\ elapsedTime = 0
    /\ serverRunning = FALSE
    /\ serverAvailableBytes = 0
    /\ serverByteIndex = 0
    /\ serverBuffer = [i \in 0..(BUFLEN - 1) |-> 0]
    /\ serverState = "NOT_STARTED"
    /\ inbox = <<>>
    /\ lastOp = "none"
    /\ arg = 0
    /\ ret = 0
    /\ io = <<>>
    /\ errors = 0
    /\ hadRecv = FALSE
    /\ lastRecv = <<>>
    /\ readsSince = 0
    /\ callsSince = 0
    /\ credit = 0
    /\ started = FALSE
    /\ ended = FALSE
    /\ receiver = 0
    /\ motorvals = Motors(0, 0, 0, 0)
    /\ updateSaw = 0
    /\ motorWrites = <<>>
    /\ forces = [k \in 0..2 |-> 0]
    /\ rotation = [dt |-> 0, pitch |-> 0, yaw |-> 0, roll |-> 0]
    /\ thrust = 0
    /\ rates = [k \in 0..2 |-> [num |-> 0, den |-> 1]]
    /\ eulers = <<ZeroVector, ZeroVector>>
    /\ dtNow = 0
    /\ ticked = FALSE
    /\ timeCalls = 0

\* joystickInit()
joystickInit ==
    /\ jipc = "new"
    /\ jipc' = "done"
    /\ joyid' = FirstDevice(devices)
    /\ handed' = Profile(joyid', devVendor, devProduct, stackAxis, stackButton)
    /\ UNCHANGED <<devices, devVendor, devProduct, stackAxis, stackButton, joyVars,
                   workerVars, pawnVars>>

JoyInitNext == joystickInit

\* ======================================================= Joystick (Linux)
\* the channels of _axes and the slot for an axis that feeds none
AX_THR == 0
AX_ROL == 1
AX_PIT == 2
AX_YAW == 3
AX_AU1 == 4
AX_AU2 == 5
AX_NIL == 6

\* an axis map: the channel of each of the axis numbers 0..7
AxisMapOf(entries) == [n \in 0..7 |-> entries[n + 1]]

F310_MAP ==
    AxisMapOf(<<AX_YAW, AX_THR, AX_ROL, AX_PIT, AX_NIL, AX_NIL, AX_NIL, AX_NIL>>)

SPEKTRUM_MAP ==
    AxisMapOf(<<AX_YAW, AX_THR, AX_ROL, AX_PIT, AX_AU2, AX_NIL, AX_AU1, AX_NIL>>)

XBOX360_WIRELESS_MAP ==
    AxisMapOf(<<AX_YAW, AX_THR, AX_NIL, AX_ROL, AX_PIT, AX_NIL, AX_NIL, AX_NIL>>)

REALFLIGHT_INTERLINK_MAP ==
    AxisMapOf(<<AX_ROL, AX_PIT, AX_THR, AX_NIL, AX_YAW, AX_AU1, AX_NIL, AX_NIL>>)

\* poll: switch (_productId), the products that have an axis map
Supported == {"F310", "SPEKTRUM", "XBOX360_WIRELESS", "REALFLIGHT_INTERLINK"}

AxisMap(product) ==
    CASE product = "F310" -> F310_MAP
      [] product = "SPEKTRUM" -> SPEKTRUM_MAP
      [] product = "XBOX360_WIRELESS" -> XBOX360_WIRELESS_MAP
      [] product = "REALFLIGHT_INTERLINK" -> REALFLIGHT_INTERLINK_MAP

\* the constructor: the product it recognizes in the reported name
Names == {"Taranis", "DeviationTx Deviation GamePad", "Horizon Hobby SPEKTRUM",
          "GREAT PLANES InterLink Elite", "Extreme 3D", "Generic X-Box pad",
          "Logitech Logitech Dual Action", "Xbox 360 Wireless Receiver",
          "USB Gamepad"}

AllProducts == {"TARANIS", "SPEKTRUM", "REALFLIGHT_INTERLINK", "EXTREMEPRO3D",
                "XBOX360_CLONE", "F310", "XBOX360_WIRELESS", "OTHER"}

Recognized(name) ==
    CASE name \in {"Taranis", "DeviationTx Deviation GamePad"} -> {"TARANIS"}
      [] name = "Horizon Hobby SPEKTRUM" -> {"SPEKTRUM"}
      [] name = "GREAT PLANES InterLink Elite" -> {"REALFLIGHT_INTERLINK"}
      [] name = "Extreme 3D" -> {"EXTREMEPRO3D"}
      [] name = "Generic X-Box pad" -> {"XBOX360_CLONE"}
      [] name = "Logitech Logitech Dual Action" -> {"F310"}
      [] name = "Xbox 360 Wireless Receiver" -> {"XBOX360_WIRELESS"}
      [] OTHER -> {}

\* _productId after the constructor; where it assigns none the member keeps
\* what it held
ProductAfter(isOpen, name) ==
    IF isOpen /\ Recognized(name) # {} THEN Recognized(name) ELSE AllProducts

\* _isRcTransmitter after the constructor, set for the three transmitters only
IsRcAfter(isOpen, name) ==
    IF isOpen /\ Recognized(name) \subseteq {"TARANIS", "SPEKTRUM", "REALFLIGHT_INTERLINK"}
              /\ Recognized(name) # {}
    THEN {TRUE} ELSE BOOLEAN

\* float values are kept as multiples of 1/Scale
Scale == 32768

RawSamples == {-32768, 32767}

\* variant: the raw value is divided by half the range
FromRaw_HalfRange(value) == (value * Scale) \div 16384

\* poll: js.value / 32768.f
FromRaw(value) == (value * Scale) \div 32768

\* variant: releasing button 4 sets the channel to 0.0
handleRealflightInterlinkButtons_Release(number, value, axes) ==
    LET a1 == IF number = 3 /\ value = 1 THEN [axes EXCEPT ![AX_AU1] = 0] ELSE axes
        a2 == IF number = 3 /\ value = 0 THEN [a1 EXCEPT ![AX_AU1] = Scale \div 2] ELSE a1
        a3 == IF number = 4 /\ value = 0 THEN [a2 EXCEPT ![AX_AU1] = 0] ELSE a2
    IN  IF number = 4 /\ value = 1 THEN [a3 EXCEPT ![AX_AU1] = Scale] ELSE a3

\* handleRealflightInterlinkButtons(number, value, axes)
handleRealflightInterlinkButtons(number, value, axes) ==
    LET a1 == IF number = 3 /\ value = 1 THEN [axes EXCEPT ![AX_AU1] = 0] ELSE axes
        a2 == IF number = 3 /\ value = 0 THEN [a1 EXCEPT ![AX_AU1] = Scale \div 2] ELSE a1
        a3 == IF number = 4 /\ value = 0 THEN [a2 EXCEPT ![AX_AU1] = Scale \div 2] ELSE a2
    IN  IF number = 4 /\ value = 1 THEN [a3 EXCEPT ![AX_AU1] = Scale] ELSE a3

\* poll: axes[0] and axes[2] are inverted unless an R/C transmitter
Inverted(axes, product, isRc) ==
    IF product = "REALFLIGHT_INTERLINK" \/ ~isRc
    THEN [axes EXCEPT ![0] = -axes[0], ![2] = -axes[2]]
    ELSE axes

\* the events a poll may read; a button event agrees with the button's state
AxisNumbers == 0..8

AxisEvents ==
    {[type |-> "AXIS", number |-> n, value |-> v] : n \in AxisNumbers, v \in RawSamples}

ButtonEvents == {[type |-> "BUTTON", number |-> n, value |-> v] : n \in {0, 3, 4}, v \in {0, 1}}

InitEvents == {[type |-> "INIT", number |-> 0, value |-> 0]}

Events == AxisEvents \cup ButtonEvents \cup InitEvents

\* sample values of the byte found behind an axis map
BehindMap == {0, 6, 200}

\* axisMap[js.number]: the map entry, or behind the map whatever is there
MapRead(product, ev) ==
    IF ev.type # "AXIS" \/ product \notin Supported THEN {0}
    ELSE IF ev.number \in DOMAIN AxisMap(product) THEN {AxisMap(product)[ev.number]}
    ELSE BehindMap

IsAuxButton(ev) == ev.type = "BUTTON" /\ ev.number \in {3, 4}

Possible(ev) ==
    /\ (ev.type = "BUTTON" /\ ev.number = 3) => (ev.value = 1) = ~btn3
    /\ (ev.type = "BUTTON" /\ ev.number = 4) => (ev.value = 1) = ~btn4

\* The Joystick after its constructor; _axes is static and starts zeroed.
JoystickInit ==
    /\ jsName \in Names
    /\ jsOpen \in BOOLEAN
    /\ jsProduct \in ProductAfter(jsOpen, jsName)
    /\ jsIsRc \in IsRcAfter(jsOpen, jsName)
    /\ jsAxes = [k \in 0..5 |-> 0]
    /\ jsSpill = 0
    /\ outAxes = [k \in 0..5 |-> 0]
    /\ jsRet = "none"
    /\ outWritten = FALSE
    /\ mapOutside = FALSE
    /\ storeOutside = FALSE
    /\ btn3 = FALSE
    /\ btn4 = FALSE
    /\ bothSeen = FALSE
    /\ auxOnly = TRUE
    /\ auxEvents = 0
    \* joystickInit is not looked at
    /\ devices = {}
    /\ devVendor = "OTHER"
    /\ devProduct = "OTHER"
    /\ stackAxis = [k \in 0..4 |-> 0]
    /\ stackButton = [k \in 0..4 |-> 0]
    /\ jipc = "done"
    /\ joyid = 16
    /\ handed = <<>>
    \* no worker exists
    /\ mpc = "new"
    /\ wpc = [t \in Threads |-> "none"]
    /\ running = FALSE
    /\ count = 0
    /\ reg = [t \in Threads |-> 0]
    /\ wLeft = [t \in Threads |-> 0]
    /\ mLeft = 0
    /\ viaHelper = FALSE
    /\ completed = 0
    /\ stops = 0
    /\ stopRet = FALSE
    /\ earlyStop = FALSE
    /\ sinceRet = 0
    /\ reads = 0
    /\ obs = 0
    /\ prevObs = 0
    \* no pawn is playing
    /\ played = FALSE
    /\ eulerPrev = ZeroVector
    /\ gyro = [diff |-> ZeroVector, dt |-> 1]
    /\ varioPrev = 0
    /\ accelZ = [diff |-> 0, dt |-> 1]
    /\ elapsedTime = 0
    /\ serverRunning = FALSE
    /\ serverAvailableBytes = 0
    /\ serverByteIndex = 0
    /\ serverBuffer = [i \in 0..(BUFLEN - 1) |-> 0]
    /\ serverState = "NOT_STARTED"
    /\ inbox = <<>>
    /\ lastOp = "none"
    /\ arg = 0
    /\ ret = 0
    /\ io = <<>>
    /\ errors = 0
    /\ hadRecv = FALSE
    /\ lastRecv = <<>>
    /\ readsSince = 0
    /\ callsSince = 0
    /\ credit = 0
    /\ started = FALSE
    /\ ended = FALSE
    /\ receiver = 0
    /\ motorvals = Motors(0, 0, 0, 0)
    /\ updateSaw = 0
    /\ motorWrites = <<>>
    /\ forces = [k \in 0..2 |-> 0]
    /\ rotation = [dt |-> 0, pitch |-> 0, yaw |-> 0, roll |-> 0]
    /\ thrust = 0
    /\ rates = [k \in 0..2 |-> [num |-> 0, den |-> 1]]
    /\ eulers = <<ZeroVector, ZeroVector>>
    /\ dtNow = 0
    /\ ticked = FALSE
    /\ timeCalls = 0

\* poll(axes, buttonState) reading the event ev; idx is what axisMap[js.number]
\* yields for it
poll(ev, idx) ==
    /\ idx \in MapRead(jsProduct, ev)
    /\ jsRet' = IF ~jsOpen THEN "ERROR_PRODUCT"
                ELSE IF ev.type = "INIT" THEN "ERROR_NOERROR"
                ELSE IF jsProduct \notin Supported THEN "ERROR_PRODUCT"
                ELSE "ERROR_NOERROR"
    /\ IF ~jsOpen \/ jsProduct # "REALFLIGHT_INTERLINK"
       THEN UNCHANGED <<btn3, btn4, bothSeen, auxOnly, auxEvents>>
       ELSE /\ Possible(ev)
            /\ btn3' = IF ev.type = "BUTTON" /\ ev.number = 3 THEN ev.value = 1 ELSE btn3
            /\ btn4' = IF ev.type = "BUTTON" /\ ev.number = 4 THEN ev.value = 1 ELSE btn4
            /\ bothSeen' = (bothSeen \/ (btn3' /\ btn4'))
            /\ auxOnly' = (auxOnly /\ IsAuxButton(ev))
            /\ auxEvents' = IF IsAuxButton(ev) THEN 1 ELSE auxEvents
    /\ IF jsOpen /\ ev.type # "INIT" /\ jsProduct \in Supported
       THEN /\ jsAxes' =
                 IF ev.type = "AXIS"
                 THEN (IF idx \in DOMAIN jsAxes
                       THEN [jsAxes EXCEPT ![idx] = FromRaw(ev.value)]
                       ELSE jsAxes)
                 ELSE IF jsProduct = "REALFLIGHT_INTERLINK"
                 THEN handleRealflightInterlinkButtons(ev.number, ev.value, jsAxes)
                 ELSE jsAxes
            /\ jsSpill' =
                 IF ev.type = "AXIS" /\ idx = 6 THEN FromRaw(ev.value) ELSE jsSpill
            /\ mapOutside' = (mapOutside \/ (ev.type = "AXIS" /\ ev.number \notin 0..7))
            /\ storeOutside' = (storeOutside \/ (ev.type = "AXIS" /\ idx \notin 0..5))
            /\ outAxes' = Inverted(jsAxes', jsProduct, jsIsRc)
            /\ outWritten' = TRUE
       ELSE UNCHANGED <<jsAxes, jsSpill, mapOutside, storeOutside, outAxes, outWritten>>
    /\ UNCHANGED <<jsName, jsOpen, jsProduct, jsIsRc, initVars, workerVars, pawnVars>>

JoystickNext == \E ev \in Events : \E idx \in BehindMap \cup 0..6 : poll(ev, idx)

SpecWorker == WorkerInit /\ [][WorkerNext]_vars

SpecPawn == PawnInit /\ [][PawnNext]_vars

SpecFlight == FlightInit /\ [][FlightNext]_vars

SpecJoyInit == JoyInitInit /\ [][JoyInitNext]_vars

SpecJoystick == JoystickInit /\ [][JoystickNext]_vars

\* ======================================================== FThreadedWorker
InFlight == {t \in Threads : wpc[t] = "task"}

Constructed == mpc \in {"idle", "stopping", "deleting"}

\* increments of _count that are owed for a returned performTask
Pending == Cardinality({t \in Threads : wpc[t] \in {"load", "store"}})

\* C1: when the first Stop() is issued before Run() has left its settle delay,
\* then from one grace-sleep interval after Stop() returned on, _count no
\* longer changes and no further performTask invocation starts.
C1_StopEarlyHaltsCounter ==
    [][(earlyStop /\ stopRet /\ sinceRet >= GraceTicks)
          => /\ count' = count
             /\ \A t \in Threads : wpc'[t] = "task" => wpc[t] = "task"]_vars

\* C2: once Stop() has returned, no performTask invocation is in flight (Stop()
\* does not return during an invocation and none starts afterwards).
C2_NoTaskAfterStopReturns == stopRet => InFlight = {}

\* C3: at most one performTask invocation of the worker is in progress.
C3_AtMostOneTask == Cardinality(InFlight) <= 1

\* C3 witness: an invocation is in progress after an earlier one completed and
\* after Stop() was called.
C3_Witness == InFlight # {} /\ completed >= 1 /\ stops >= 1

\* C4: a later getCount() never returns less than an earlier one, and on the
\* constructed worker _count equals the number of completed performTask
\* invocations (the increment of the invocation that just returned may still
\* be owed).
C4_CountMonotoneAndExact ==
    /\ reads = 2 => prevObs <= obs
    /\ Constructed => count + Pending = completed

\* ============================================================ serial bridge
\* C5: a call of serialAvailableBytes() that finds unread bytes returns their
\* count, performs no socket operation and leaves buffer, cursor and count as
\* they are; a call that finds the count zero with a client connected performs
\* exactly one receiveBuffer call, sets the count to the number of bytes
\* received and the cursor to 0; any other call performs no socket operation.
C5_AvailableBytesFrame ==
    [][lastOp' = "avail" =>
         IF serverAvailableBytes > 0
         THEN /\ ret' = serverAvailableBytes
              /\ io' = <<>>
              /\ UNCHANGED <<serverBuffer, serverByteIndex, serverAvailableBytes>>
         ELSE IF serverAvailableBytes = 0 /\ Connected
         THEN /\ Len(io') = 1
              /\ io'[1].op = "recv"
              /\ serverAvailableBytes' = (IF io'[1].n > 0 THEN io'[1].n ELSE 0)
              /\ serverByteIndex' = 0
         ELSE io' = <<>>]_vars

\* C5 witness: a call has returned the count of the unread bytes without
\* receiving, although the client has more bytes pending on the socket.
C5_Witness ==
    /\ lastOp = "avail"
    /\ io = <<>>
    /\ Connected
    /\ inbox # <<>>
    /\ readsSince = 1
    /\ serverAvailableBytes = 1
    /\ ret = 1

\* C6 as stated: after a receive of N >= 1 bytes, every call of
\* serialAvailableBytes() after the one that received them returns 0.
C6_ReturnsCountOnce ==
    (lastOp = "avail" /\ hadRecv /\ Len(lastRecv) >= 1 /\ callsSince >= 2) => ret = 0

\* C6 amended: after a receive of N bytes, every call of serialAvailableBytes()
\* returns N minus the number of bytes read since, and performs no receive
\* while that number is positive.
C6_ReturnsUnreadCount ==
    /\ [](lastOp = "avail" /\ hadRecv => ret = Len(lastRecv) - readsSince)
    /\ [][lastOp' = "avail" /\ hadRecv /\ readsSince < Len(lastRecv)
             => io' = <<>>]_vars

\* C6 witness: the second call after a receive of two bytes, one of which was
\* read in between, has returned 1.
C6_Witness ==
    /\ lastOp = "avail"
    /\ callsSince = 2
    /\ Len(lastRecv) = 2
    /\ readsSince = 1
    /\ ret = 1

\* C7: the k-th serialReadByte() after a receive of N bytes returns the k-th
\* byte received, leaves the cursor at k and the count at N - k.
C7_ReadsInOrder ==
    (lastOp = "read" /\ hadRecv)
        => /\ readsSince \in 1..Len(lastRecv)
           /\ ret = lastRecv[readsSince]
           /\ serverByteIndex = readsSince
           /\ serverAvailableBytes = Len(lastRecv) - readsSince

\* C7 witness: two different bytes were received and both were read, with a
\* call of serialAvailableBytes() between the two reads.
C7_Witness ==
    /\ lastOp = "read"
    /\ Len(lastRecv) = 2
    /\ lastRecv[1] # lastRecv[2]
    /\ readsSince = 2
    /\ callsSince = 2
    /\ ret = lastRecv[2]
    /\ serverAvailableBytes = 0

\* C8: from BeginPlay on the count is never negative; it changes only by -1 in
\* serialReadByte or in the receive branch of serialAvailableBytes; and once a
\* receive has happened, cursor + count is the size of the last receive and at
\* most the capacity of the buffer.
C8_CountDiscipline ==
    /\ [](played => /\ serverAvailableBytes >= 0
                    /\ hadRecv => /\ serverByteIndex + serverAvailableBytes = Len(lastRecv)
                                  /\ serverByteIndex + serverAvailableBytes <= BUFLEN)
    /\ [][(played /\ serverAvailableBytes' # serverAvailableBytes)
             => \/ lastOp' = "read" /\ serverAvailableBytes' = serverAvailableBytes - 1
                \/ lastOp' = "avail" /\ Len(io') = 1 /\ io'[1].op = "recv"]_vars

\* C8 witness: a Tick ran while one of two received bytes was still unread.
C8_Witness ==
    /\ played
    /\ lastOp = "tick"
    /\ Len(lastRecv) = 2
    /\ serverByteIndex = 1
    /\ serverAvailableBytes = 1

\* C9: a receive that yields zero or a negative result leaves the count 0 and
\* returns 0; serialAvailableBytes() never stores or returns a negative count
\* and never reports an error.
C9_ReceiveFailureIsZero ==
    /\ [](lastOp = "avail" =>
            /\ serverAvailableBytes >= 0
            /\ ret >= 0
            /\ (io # <<>> /\ io[1].n <= 0) => (serverAvailableBytes = 0 /\ ret = 0))
    /\ [][lastOp' = "avail" => errors' = errors]_vars

\* C9 witness: the receive failed and the call returned 0.
C9_Witness ==
    /\ lastOp = "avail"
    /\ io = <<Recv(-1)>>
    /\ serverAvailableBytes = 0
    /\ ret = 0

\* C10: serialWriteByte(c) sends the one byte c when a client is connected and
\* nothing otherwise, reports no error, and leaves buffer, cursor and count as
\* they are.
C10_WriteByte ==
    [][lastOp' = "write" =>
         /\ io' = (IF Connected THEN <<Send(<<arg'>>)>> ELSE <<>>)
         /\ errors' = errors
         /\ UNCHANGED <<serverBuffer, serverByteIndex, serverAvailableBytes>>]_vars

\* C10 witness: a byte was written and dropped while the server was listening
\* without a client and a received byte was still unread.
C10_Witness ==
    /\ lastOp = "write"
    /\ serverRunning
    /\ ~Connected
    /\ io = <<>>
    /\ errors = 0
    /\ serverAvailableBytes > 0


\* ============================================================ the session
\* C11: in a session whose server.start() failed, the error was reported
\* once, _serverRunning is false and the available count is 0, every
\* serialAvailableBytes() returns 0 without receiving, every serialWriteByte()
\* sends nothing, and EndPlay calls neither disconnect() nor stop().
C11_StartFailureIsInert ==
    (played /\ ~started)
        => /\ ~serverRunning
           /\ serverAvailableBytes = 0
           /\ errors = 1
           /\ lastOp = "avail" => (ret = 0 /\ io = <<>>)
           /\ lastOp = "write" => io = <<>>
           /\ lastOp = "end" => io = <<>>

\* C11 witness: such a session has ended after a byte was written
C11_Witness == played /\ ~started /\ ended /\ lastOp = "end" /\ arg \in Bytes

\* C12: in a session whose server.start() succeeded, EndPlay leaves the server
\* not started; it calls disconnect() exactly when a client is connected, and
\* then first; and it calls stop() once, last, whatever disconnect() returned.
C12_EndPlayStopsOnce ==
    [][(started /\ ~ended /\ ended')
          => /\ serverState' = "NOT_STARTED"
             /\ Len(io') = (IF serverState = "CONNECTED" THEN 2 ELSE 1)
             /\ io'[Len(io')].op = "stop"
             /\ Len(io') = 2 => io'[1].op = "disconnect"]_vars

\* C12 witness: EndPlay has stopped the server after disconnect() failed
C12_Witness ==
    /\ started /\ ended /\ serverState = "NOT_STARTED"
    /\ Len(io) = 2 /\ io[1].op = "disconnect" /\ io[1].n = 0 /\ io[2].op = "stop"


\* ================================================================== flight
\* C13 as claimed: after a Tick with the motor vector [1,0,1,0] the force
\* motorsToAngularForce(2,3,0,1) is +1, and with [0,1,0,1] it is -1.
C13_OppositePairsPlusMinusOne ==
    lastOp = "tick"
        => /\ motorvals = Motors(1, 0, 1, 0) => forces[0] = 1
           /\ motorvals = Motors(0, 1, 0, 1) => forces[0] = -1

\* C13 amended: with either vector both pairs sum to 1 and the force
\* motorsToAngularForce(2,3,0,1) is 0.
C13_OppositePairsCancel ==
    lastOp = "tick"
        => /\ motorvals = Motors(1, 0, 1, 0) => forces[0] = 0
           /\ motorvals = Motors(0, 1, 0, 1) => forces[0] = 0

\* C13 witness: a Tick has computed the force from the vector [0,1,0,1]
C13_Witness == lastOp = "tick" /\ motorvals = Motors(0, 1, 0, 1) /\ forces[0] = 0

\* C14: after every Tick the divisor of the gyro finite difference and the
\* divisor of the vertical-acceleration finite difference are non-zero.
C14_DivisorNonZero == ticked => (gyro.dt # 0 /\ accelZ.dt # 0)

\* C15: after a Tick, getGyrometer returns (dX, dY, 0), dX and dY being the
\* roll and pitch components of (Euler of the last Tick - Euler of the Tick
\* before, zero for the first Tick) / dt; the yaw component is 0 whenever it
\* is read; with the same orientation in both Ticks the reading is zero.
C15_GyroReading ==
    lastOp = "gyro"
        => /\ rates[2] = Quot(0, 1)
           /\ ticked =>
                /\ rates[0] = Quot(eulers[2][1] - eulers[1][1], dtNow)
                /\ rates[1] = Quot(eulers[2][2] - eulers[1][2], dtNow)
                /\ eulers[2] = eulers[1]
                     => \A k \in 0..2 : rates[k].num = 0 /\ rates[k].den # 0

\* C19: in every Tick the firmware update sees the receiver state polled in
\* this Tick, the motor values are those its writeMotor calls left, the three
\* forces, the rotation and the thrust are computed from these values.
C19_TickOrder ==
    [][lastOp' = "tick"
          => /\ updateSaw' = receiver'
             /\ \A i \in 0..3 :
                  LET ws == {k \in DOMAIN motorWrites' : motorWrites'[k][1] = i}
                  IN  motorvals'[i] =
                        IF ws = {} THEN motorvals[i]
                        ELSE motorWrites'[CHOOSE k \in ws : \A j \in ws : j <= k][2]
             /\ forces'[0] = (motorvals'[2] + motorvals'[3]) - (motorvals'[0] + motorvals'[1])
             /\ forces'[1] = (motorvals'[1] + motorvals'[3]) - (motorvals'[0] + motorvals'[2])
             /\ forces'[2] = (motorvals'[1] + motorvals'[2]) - (motorvals'[0] + motorvals'[3])
             /\ rotation' = [dt |-> dtNow', pitch |-> forces'[1], yaw |-> forces'[2],
                             roll |-> forces'[0]]
             /\ thrust' = motorvals'[0] + motorvals'[1] + motorvals'[2] + motorvals'[3]]_vars

\* C19 witness: a Tick whose update changed the motor values has applied a
\* rotation and a thrust
C19_Witness ==
    /\ lastOp = "tick" /\ motorWrites # <<>> /\ motorvals = Motors(0, 0, 1, 0)
    /\ rotation.roll = 1 /\ rotation.pitch = -1 /\ thrust = 1 /\ timeCalls > 0

\* C20 as claimed: the k-th getTime() after BeginPlay returns 1.0 + 0.01 * k,
\* more than the elapsed time before, and no other step changes the elapsed time.
C20_ExactCentiseconds ==
    [][played
          => IF timeCalls' # timeCalls
             THEN /\ ret' > elapsedTime
                  /\ 100 * ret' = 100 * OneSecond + timeCalls' * OneSecond
             ELSE elapsedTime' = elapsedTime]_vars

\* C20 amended: the k-th getTime() after BeginPlay returns a float within k
\* float spacings (k * 2^-23 s) of 1.0 + 0.01 * k, more than the elapsed time
\* before, and no other step changes the elapsed time.
C20_RoundedCentiseconds ==
    [][played
          => IF timeCalls' # timeCalls
             THEN /\ ret' > elapsedTime
                  /\ ret' = elapsedTime'
                  /\ 100 * ret' - (100 * OneSecond + timeCalls' * OneSecond)
                        \in (-100 * timeCalls')..(100 * timeCalls')
             ELSE elapsedTime' = elapsedTime]_vars

\* C20 witness: the seventh getTime() of a session has returned, after a Tick
C20_Witness == lastOp = "time" /\ timeCalls = 7 /\ ticked /\ ret = elapsedTime


\* ================================================================ joystick
\* C16: when joystickInit finds no device, or a device whose vendor/product
\* pair it has no profile for, every entry of the axis map and of the button
\* map handed to SimReceiver has been assigned and the three flags are false.
C16_InertProfile ==
    (jipc = "done" /\ (devices = {} \/ ~KnownPair(devVendor, devProduct)))
        => /\ \A k \in 0..4 : handed.axismap[k].set /\ handed.buttonmap[k].set
           /\ ~handed.reversedVerticals
           /\ ~handed.springyThrottle
           /\ ~handed.useButtonForAux

\* C17 as claimed: on the RealFlight InterLink, after press and release events
\* of buttons 3 and 4 only, the aux channel is 0.0 while only button 3 is
\* asserted, 1.0 while only button 4 is, 0.5 while neither is.
C17_AuxFollowsButtons ==
    (jsOpen /\ jsProduct = "REALFLIGHT_INTERLINK" /\ auxOnly /\ auxEvents >= 1)
        => /\ (btn3 /\ ~btn4) => outAxes[4] = 0
           /\ (btn4 /\ ~btn3) => outAxes[4] = 32768
           /\ (~btn3 /\ ~btn4) => outAxes[4] = 16384

\* C17 amended: the same, for sequences in which buttons 3 and 4 were never
\* asserted at the same time.
C17_AuxFollowsExclusiveButtons ==
    (jsOpen /\ jsProduct = "REALFLIGHT_INTERLINK" /\ auxOnly /\ auxEvents >= 1
        /\ ~bothSeen)
        => /\ (btn3 /\ ~btn4) => outAxes[4] = 0
           /\ (btn4 /\ ~btn3) => outAxes[4] = 32768
           /\ (~btn3 /\ ~btn4) => outAxes[4] = 16384

\* C17 witness: button 4 alone is asserted after it was pressed, and the
\* aux channel is 1.0
C17_Witness ==
    /\ jsOpen /\ jsProduct = "REALFLIGHT_INTERLINK" /\ auxOnly /\ auxEvents >= 1
    /\ ~bothSeen /\ btn4 /\ ~btn3 /\ outAxes[4] = 32768

\* C18: for a product that has an axis map, every channel that poll has
\* written to the caller's array on an axis or button event lies in
\* [-1, 1], the inverted channels 0 and 2 included.
C18_ChannelsInRange ==
    (jsOpen /\ jsProduct \in {"F310", "SPEKTRUM", "XBOX360_WIRELESS", "REALFLIGHT_INTERLINK"}
        /\ outWritten)
        => \A k \in 0..5 : outAxes[k] >= -32768 /\ outAxes[k] <= 32768

\* C18 witness: the raw value -32768 on the throttle axis of an F310 has
\* been inverted to exactly +1
C18_Witness ==
    /\ jsOpen /\ jsProduct = "F310" /\ ~jsIsRc /\ jsRet = "ERROR_NOERROR"
    /\ outWritten /\ jsAxes[0] = -32768 /\ outAxes[0] = 32768


\* C21: for a product that has an axis map, no axis event has indexed the map
\* outside its 8 entries, none has stored outside the 6 channels, and the
\* memory behind the channel array is as it was.
C21_IndexesInside ==
    (jsOpen /\ jsProduct \in {"F310", "SPEKTRUM", "XBOX360_WIRELESS", "REALFLIGHT_INTERLINK"})
        => (~mapOutside /\ ~storeOutside /\ jsSpill = 0)

\* C23: for an opened device whose name the constructor recognizes, no poll
\* has returned ERROR_PRODUCT.
C23_RecognizedHasMap ==
    (jsOpen /\ jsName # "USB Gamepad" /\ jsRet # "none") => jsRet = "ERROR_NOERROR"

====
